---- MODULE Spec2Model ----
(***************************************************************************)
(* The training console of src/app.py: one Streamlit script that renders a *)
(* form (inspector, 1..4 photo slots, aggregate section from 2 photos on)  *)
(* and, when the save button is pressed, validates the form, uploads the   *)
(* photos to a Drive folder and appends rows to the Images and Cases       *)
(* worksheets.                                                             *)
(*                                                                         *)
(* Every action is one run of the script: the widget change that triggered *)
(* it, the render pass (lines 241-400) and, for the save button, the       *)
(* handler of lines 404-455.  The remote services are the record `remote`. *)
(* Texts are strings; the inspector name is a sequence of characters so    *)
(* that str.strip() is computed.  Japanese literals are written in ASCII:  *)
(*   LOGO = "ロゴ", CARRIAGE_TAG = "馬車タグ", COUNTRY_TAG = "製造国タグ",        *)
(*   WITHIN/OUTSIDE/UNDECIDED = "基準内"/"基準外"/"判断つかず".                   *)
(* Columns that no condition of the script reads and that are copied       *)
(* verbatim (brand, item, memo, the per-image reason_choices,              *)
(* drive_view_url, weight_version, created_at) are left out of the rows.   *)
(***************************************************************************)
EXTENDS Integers, Sequences, FiniteSets, TLC

\* ------------------------------------------------------------ vocabulary
REQUIRED_IMAGE_TYPES == <<"LOGO", "CARRIAGE_TAG", "COUNTRY_TAG", "YKK", "IDEAL">>

LEARN_NO_REASONS ==
  <<"BAD_IMAGE_QUALITY", "INFO_NOT_VISIBLE", "CRITERIA_UNSETTLED", "TEST_DATA", "OTHER">>

\* the option "その他（自由記述で補足）", the only one containing "その他"
OTHER_REASON == LEARN_NO_REASONS[5]

\* "：", the separator of line 353
SEP == ":"

\* "（自由記述に補足してください）", the fallback of line 353
PLACEHOLDER == "(please supplement in free text)"

JUDGES == <<"WITHIN", "OUTSIDE", "UNDECIDED">>

LEARN_YN == <<"Yes", "No">>

\* number_input(min_value=1, max_value=4)
MinImgCount == 1

MaxImgCount == 4

\* `if int(img_count) >= 2`
AggregateThreshold == 2

Slots == 1..MaxImgCount

\* no selection / None
NONE == ""

\* ------------------------------------------------------------ bounds
\* case ids handed out before the session is cut off
MaxCases == 2

\* the same, in the specifications that also edit types or learn fields
MaxDetailCases == 1

\* inputs typed into the inspector field
JudgeInputs == {<<>>, <<" ">>, <<" ", "a">>}

\* inputs typed into a free-text rationale field
FreeInputs == {"", "pitch"}

\* joined selections of the aggregate's rationale multiselect
ChoiceInputs == {"", "COMPOSITE_WITHIN"}

\* learn-no reasons picked in the model: a plain one and the Other option
NoReasonInputs == {LEARN_NO_REASONS[1], OTHER_REASON}

\* ------------------------------------------------------------ state
VARIABLES
  widgets,            \* values of the form's widgets after the last run
  judge_person_keep,  \* st.session_state["judge_person_keep"]
  saved,              \* st.session_state["saved"]
  last_case_id,       \* st.session_state["last_case_id"], 0 for ""
  show_saved_banner,  \* st.session_state["show_saved_banner"]
  remote,             \* the spreadsheet and the Drive
  next_case_id,       \* the id the next generated case_id gets
  run,                \* what the last run was: "init", "edit", "save", "next"
  errors,             \* st.error messages shown by the last run
  calls,              \* remote calls issued by the last run, in order
  raised              \* index in calls of the call that raised, 0 if none

sessVars == <<judge_person_keep, saved, last_case_id, show_saved_banner>>

vars == <<widgets, judge_person_keep, saved, last_case_id, show_saved_banner,
          remote, next_case_id, run, errors, calls, raised>>

\* ------------------------------------------------------------ helpers
Range(s) == {s[k] : k \in DOMAIN s}

RECURSIVE lstrip(_)
lstrip(s) == IF s # <<>> /\ Head(s) = " " THEN lstrip(Tail(s)) ELSE s

RECURSIVE rstrip(_)
rstrip(s) ==
  IF s # <<>> /\ s[Len(s)] = " " THEN rstrip(SubSeq(s, 1, Len(s) - 1)) ELSE s

\* str.strip()
strip(s) == rstrip(lstrip(s))

\* list.remove(x) after an `x in list` test
remove(s, x) == SelectSeq(s, LAMBDA t : t # x)

\* not_chosen without the `not in chosen_types` filter
not_chosen_unfiltered(chosen_types) == REQUIRED_IMAGE_TYPES

\* [t for t in REQUIRED_IMAGE_TYPES if t not in chosen_types]
not_chosen(chosen_types) ==
  SelectSeq(REQUIRED_IMAGE_TYPES, LAMBDA t : t \notin Range(chosen_types))

\* excluded with the exclusion one way only: IDEAL chosen removes YKK, YKK
\* chosen does not remove IDEAL
excluded_one_way(chosen_types) ==
  LET a0 == not_chosen(chosen_types)
  IN  IF "IDEAL" \in Range(chosen_types) THEN remove(a0, "YKK") ELSE a0

\* lines 286-290: the candidates after the IDEAL/YKK exclusion
excluded(chosen_types) ==
  LET a0 == not_chosen(chosen_types)
      a1 == IF "IDEAL" \in Range(chosen_types) THEN remove(a0, "YKK") ELSE a0
  IN  IF "YKK" \in Range(chosen_types) THEN remove(a1, "IDEAL") ELSE a1

\* lines 286-294: the options of a slot's type selectbox
available(chosen_types) ==
  IF excluded(chosen_types) = <<>>
  THEN not_chosen(chosen_types)
  ELSE excluded(chosen_types)

\* st.selectbox: the stored value if it is still an option, else the first
\* option (None when there is none)
selectbox(options, stored) ==
  IF stored \in Range(options) THEN stored
  ELSE IF options = <<>> THEN NONE ELSE options[1]

\* the loop of lines 271-297 over the type selectboxes: chosen_types
RECURSIVE chosen_loop(_, _, _)
chosen_loop(stored, n, chosen_types) ==
  IF Len(chosen_types) >= n THEN chosen_types
  ELSE chosen_loop(stored, n,
         Append(chosen_types,
                selectbox(available(chosen_types), stored[Len(chosen_types) + 1])))

\* the widget values of a new form (every key is prefixed by form_id)
new_form(keep) ==
  [ judge_person        |-> keep,
    img_count           |-> 1,
    image_type          |-> [i \in Slots |-> NONE],
    uploaded            |-> [i \in Slots |-> FALSE],
    judge               |-> [i \in Slots |-> JUDGES[1]],
    learn_yn            |-> [i \in Slots |-> LEARN_YN[1]],
    no_reason           |-> [i \in Slots |-> LEARN_NO_REASONS[1]],
    reason_free         |-> [i \in Slots |-> ""],
    overall_judge       |-> JUDGES[1],
    overall_choices     |-> "",
    overall_learn_yn    |-> LEARN_YN[1],
    overall_no_reason   |-> LEARN_NO_REASONS[1],
    overall_reason_free |-> "" ]

\* One render pass over the widgets (lines 241-400): a widget that is drawn
\* keeps its value (a type selectbox: if still among its options), a widget
\* that is not drawn loses it and shows its default when drawn again.
render(w) ==
  LET n     == w.img_count
      d     == new_form(w.judge_person)
      types == chosen_loop(w.image_type, n, <<>>)
      agg   == n >= AggregateThreshold
  IN  [ judge_person        |-> w.judge_person,
        img_count           |-> n,
        image_type          |-> [i \in Slots |-> IF i <= n THEN types[i] ELSE NONE],
        uploaded            |-> [i \in Slots |-> i <= n /\ w.uploaded[i]],
        judge               |-> [i \in Slots |-> IF i <= n THEN w.judge[i] ELSE d.judge[i]],
        learn_yn            |-> [i \in Slots |-> IF i <= n THEN w.learn_yn[i] ELSE d.learn_yn[i]],
        no_reason           |-> [i \in Slots |->
                                   IF i <= n /\ w.learn_yn[i] = "No"
                                   THEN w.no_reason[i] ELSE d.no_reason[i]],
        reason_free         |-> [i \in Slots |->
                                   IF i <= n THEN w.reason_free[i] ELSE d.reason_free[i]],
        overall_judge       |-> IF agg THEN w.overall_judge ELSE d.overall_judge,
        overall_choices     |-> IF agg THEN w.overall_choices ELSE d.overall_choices,
        overall_learn_yn    |-> IF agg THEN w.overall_learn_yn ELSE d.overall_learn_yn,
        overall_no_reason   |-> IF agg /\ w.overall_learn_yn = "No"
                                THEN w.overall_no_reason ELSE d.overall_no_reason,
        overall_reason_free |-> IF agg THEN w.overall_reason_free ELSE d.overall_reason_free ]

\* lines 349-353
learn_no_reason(w, i) ==
  IF w.learn_yn[i] = "No"
  THEN IF w.no_reason[i] = OTHER_REASON
       THEN w.no_reason[i] \o SEP \o
            (IF w.reason_free[i] = "" THEN PLACEHOLDER ELSE w.reason_free[i])
       ELSE w.no_reason[i]
  ELSE ""

\* lines 355-363
images_payload(w) ==
  [i \in 1..w.img_count |->
     [ uploaded        |-> w.uploaded[i],
       image_type      |-> w.image_type[i],
       judge           |-> w.judge[i],
       reason_free     |-> w.reason_free[i],
       learn_yn        |-> w.learn_yn[i],
       learn_no_reason |-> learn_no_reason(w, i) ]]

\* lines 390-392
overall_learn_no_reason(w) ==
  IF w.overall_learn_yn = "No" THEN w.overall_no_reason ELSE ""

\* overall without the gate on img_count
overall_ungated(w) ==
  [ present                 |-> TRUE,
    overall_judge           |-> w.overall_judge,
    overall_reason_choices  |-> w.overall_choices,
    overall_reason_free     |-> w.overall_reason_free,
    overall_learn_yn        |-> w.overall_learn_yn,
    overall_learn_no_reason |-> overall_learn_no_reason(w) ]

\* lines 368-400: the aggregate, a record with present = FALSE for None
overall(w) ==
  IF w.img_count >= AggregateThreshold
  THEN [ present                 |-> TRUE,
         overall_judge           |-> w.overall_judge,
         overall_reason_choices  |-> w.overall_choices,
         overall_reason_free     |-> w.overall_reason_free,
         overall_learn_yn        |-> w.overall_learn_yn,
         overall_learn_no_reason |-> overall_learn_no_reason(w) ]
  ELSE [ present                 |-> FALSE,
         overall_judge           |-> "",
         overall_reason_choices  |-> "",
         overall_reason_free     |-> "",
         overall_learn_yn        |-> "",
         overall_learn_no_reason |-> "" ]

\* ------------------------------------------------------------ save handler
\* validation_errors without the loop over the uploads
validation_errors_name_only(w) ==
  IF strip(w.judge_person) = <<>>
  THEN << [field |-> "judge_person", idx |-> 0] >>
  ELSE <<>>

\* validation_errors without st.stop() after the first st.error
validation_errors_no_stop(w) ==
  (IF strip(w.judge_person) = <<>>
   THEN << [field |-> "judge_person", idx |-> 0] >> ELSE <<>>)
  \o (IF \E i \in 1..w.img_count : ~w.uploaded[i]
      THEN << [field |-> "uploaded",
               idx   |-> CHOOSE i \in 1..w.img_count :
                           /\ ~w.uploaded[i]
                           /\ \A j \in 1..(i - 1) : w.uploaded[j]] >>
      ELSE <<>>)

\* lines 405-413: the messages st.error shows before st.stop()
validation_errors(w) ==
  IF strip(w.judge_person) = <<>>
  THEN << [field |-> "judge_person", idx |-> 0] >>
  ELSE IF \E i \in 1..w.img_count : ~w.uploaded[i]
       THEN << [field |-> "uploaded",
                idx   |-> CHOOSE i \in 1..w.img_count :
                            /\ ~w.uploaded[i]
                            /\ \A j \in 1..(i - 1) : w.uploaded[j]] >>
       ELSE <<>>

call(op, idx) == [op |-> op, idx |-> idx]

\* lines 426-437: per image, the upload and then the append of its row
RECURSIVE image_loop(_, _)
image_loop(n, i) ==
  IF i > n THEN <<>>
  ELSE <<call("upload", i), call("append_images", i)>> \o image_loop(n, i + 1)

\* all uploads, then all appends of Images rows
RECURSIVE upload_loop(_, _)
upload_loop(n, i) ==
  IF i > n THEN <<>> ELSE <<call("upload", i)>> \o upload_loop(n, i + 1)

RECURSIVE append_loop(_, _)
append_loop(n, i) ==
  IF i > n THEN <<>> ELSE <<call("append_images", i)>> \o append_loop(n, i + 1)

\* handler_calls with the uploads completed before the first append
handler_calls_uploads_first(n) ==
  <<call("get_clients", 0), call("open_worksheets", 0), call("ensure_folder", 0)>>
    \o upload_loop(n, 1) \o append_loop(n, 1) \o <<call("append_cases", 0)>>

\* handler_calls with the Cases row appended before the image loop
handler_calls_case_first(n) ==
  <<call("get_clients", 0), call("open_worksheets", 0), call("ensure_folder", 0),
    call("append_cases", 0)>> \o image_loop(n, 1)

\* lines 419-451: the remote calls of the handler, in program order
handler_calls(n) ==
  <<call("get_clients", 0), call("open_worksheets", 0), call("ensure_folder", 0)>>
    \o image_loop(n, 1) \o <<call("append_cases", 0)>>

\* completed with the exception swallowed: the calls after the raising one
\* also run
completed_swallowed(plan, fail) ==
  IF fail = 0 THEN plan
  ELSE SubSeq(plan, 1, fail - 1) \o SubSeq(plan, fail + 1, Len(plan))

\* No call is wrapped in try/except: the calls that return are those before
\* the one that raises (fail = 0: none raises).
completed(plan, fail) ==
  IF fail = 0 THEN plan ELSE SubSeq(plan, 1, fail - 1)

\* the calls issued, the raising one included
issued(plan, fail) ==
  IF fail = 0 THEN plan ELSE SubSeq(plan, 1, fail)

\* lines 433-437
images_row(case_id, p, file_id) ==
  [ case_id         |-> case_id,
    image_type      |-> p.image_type,
    drive_file_id   |-> file_id,
    judge           |-> p.judge,
    reason_free     |-> p.reason_free,
    learn_yn        |-> p.learn_yn,
    learn_no_reason |-> p.learn_no_reason ]

\* lines 439-451
cases_row(case_id, w) ==
  LET o == overall(w)
  IN  [ case_id                 |-> case_id,
        judge_person            |-> strip(w.judge_person),
        images_count            |-> w.img_count,
        overall_judge           |-> o.overall_judge,
        overall_reason_choices  |-> o.overall_reason_choices,
        overall_reason_free     |-> o.overall_reason_free,
        overall_learn_yn        |-> o.overall_learn_yn,
        overall_learn_no_reason |-> o.overall_learn_no_reason ]

\* What one returned call leaves behind.  acc.r is the remote state and
\* acc.file_id the local file_id of line 431.
effect(acc, c, w, case_id) ==
  CASE c.op = "get_clients" -> acc
    [] c.op = "open_worksheets" ->
         [acc EXCEPT !.r.titles = @ \cup {"Cases", "Images"}]
    [] c.op = "ensure_folder" ->
         [acc EXCEPT !.r.folders = @ \cup {case_id}]
    [] c.op = "upload" ->
         [acc EXCEPT !.r.files = Append(@, [ parent     |-> case_id,
                                             image_type |-> w.image_type[c.idx] ]),
                     !.file_id = Len(acc.r.files) + 1]
    [] c.op = "append_images" ->
         [acc EXCEPT !.r.ws_images =
            Append(@, images_row(case_id, images_payload(w)[c.idx], acc.file_id))]
    [] c.op = "append_cases" ->
         [acc EXCEPT !.r.ws_cases = Append(@, cases_row(case_id, w))]

RECURSIVE run_calls(_, _, _, _)
run_calls(acc, cs, w, case_id) ==
  IF cs = <<>> THEN acc
  ELSE run_calls(effect(acc, Head(cs), w, case_id), Tail(cs), w, case_id)

\* ------------------------------------------------------------ actions
Init ==
  /\ widgets = render(new_form(<<>>))
  /\ judge_person_keep = <<>>
  /\ saved = FALSE
  /\ last_case_id = 0
  /\ show_saved_banner = FALSE
  /\ remote = [ titles |-> {}, ws_cases |-> <<>>, ws_images |-> <<>>,
                folders |-> {}, files |-> <<>> ]
  /\ next_case_id = 1
  /\ run = "init"
  /\ errors = <<>>
  /\ calls = <<>>
  /\ raised = 0

\* a widget changed: the script reruns, the save button not pressed
rerun(w) ==
  /\ w # widgets
  /\ widgets' = render(w)
  /\ run' = "edit"
  /\ errors' = <<>>
  /\ calls' = <<>>
  /\ raised' = 0
  /\ UNCHANGED <<remote, next_case_id, sessVars>>

\* lines 250-255
SetJudgePerson(s) == rerun([widgets EXCEPT !.judge_person = s])

\* line 263
SetImgCount(n) ==
  /\ n \in MinImgCount..MaxImgCount
  /\ rerun([widgets EXCEPT !.img_count = n])

\* lines 276-280: a file is chosen (b) or removed (~b) in slot i
SetUploaded(i, b) ==
  /\ i \in 1..widgets.img_count
  /\ rerun([widgets EXCEPT !.uploaded[i] = b])

\* line 296: one of the options offered in slot i is picked
SelectType(i, t) ==
  /\ i \in 1..widgets.img_count
  /\ t \in Range(available([k \in 1..(i - 1) |-> widgets.image_type[k]]))
  /\ rerun([widgets EXCEPT !.image_type[i] = t])

\* line 300
SetJudge(i, v) ==
  /\ i \in 1..widgets.img_count
  /\ rerun([widgets EXCEPT !.judge[i] = v])

\* line 303
SetLearn(i, v) ==
  /\ i \in 1..widgets.img_count
  /\ rerun([widgets EXCEPT !.learn_yn[i] = v])

\* line 351: drawn only while learn_yn is "No"
SetNoReason(i, r) ==
  /\ i \in 1..widgets.img_count
  /\ widgets.learn_yn[i] = "No"
  /\ rerun([widgets EXCEPT !.no_reason[i] = r])

\* line 347
SetReasonFree(i, s) ==
  /\ i \in 1..widgets.img_count
  /\ rerun([widgets EXCEPT !.reason_free[i] = s])

\* line 373
SetOverallJudge(v) ==
  /\ widgets.img_count >= AggregateThreshold
  /\ rerun([widgets EXCEPT !.overall_judge = v])

\* lines 375-385: the joined selection
SetOverallChoices(s) ==
  /\ widgets.img_count >= AggregateThreshold
  /\ rerun([widgets EXCEPT !.overall_choices = s])

\* line 387
SetOverallLearn(v) ==
  /\ widgets.img_count >= AggregateThreshold
  /\ rerun([widgets EXCEPT !.overall_learn_yn = v])

\* line 392: drawn only while the aggregate's learn is "No"
SetOverallNoReason(r) ==
  /\ widgets.img_count >= AggregateThreshold
  /\ widgets.overall_learn_yn = "No"
  /\ rerun([widgets EXCEPT !.overall_no_reason = r])

\* line 389
SetOverallFree(s) ==
  /\ widgets.img_count >= AggregateThreshold
  /\ rerun([widgets EXCEPT !.overall_reason_free = s])

\* lines 404-455: the save button.  fail is the position, in program order,
\* of the remote call that raises in this run (0: none does).
Save(fail) ==
  LET errs    == validation_errors(widgets)
      plan    == handler_calls(widgets.img_count)
      case_id == next_case_id
      acc     == run_calls([r |-> remote, file_id |-> 0],
                           completed(plan, fail), widgets, case_id)
      got_id  == \E k \in DOMAIN completed(plan, fail) :
                    completed(plan, fail)[k].op = "open_worksheets"
  IN  /\ fail \in 0..Len(plan)
      /\ run' = "save"
      /\ widgets' = widgets
      /\ errors' = errs
      /\ IF errs # <<>>
         THEN /\ fail = 0
              /\ calls' = <<>>
              /\ raised' = 0
              /\ UNCHANGED <<remote, next_case_id, sessVars>>
         ELSE /\ calls' = issued(plan, fail)
              /\ raised' = fail
              /\ remote' = acc.r
              /\ next_case_id' = IF got_id THEN next_case_id + 1 ELSE next_case_id
              /\ IF fail = 0
                 THEN /\ saved' = TRUE
                      /\ last_case_id' = case_id
                      /\ show_saved_banner' = TRUE
                      /\ UNCHANGED judge_person_keep
                 ELSE UNCHANGED sessVars

\* lines 458-461 and 215-223: the button under the banner
NextItem ==
  /\ show_saved_banner
  /\ judge_person_keep' = widgets.judge_person
  /\ widgets' = render(new_form(widgets.judge_person))
  /\ saved' = FALSE
  /\ last_case_id' = 0
  /\ show_saved_banner' = FALSE
  /\ run' = "next"
  /\ errors' = <<>>
  /\ calls' = <<>>
  /\ raised' = 0
  /\ UNCHANGED <<remote, next_case_id>>

\* ------------------------------------------------------------ specifications
MaxCalls == 2 * MaxImgCount + 4

EditJudgePerson == \E s \in JudgeInputs : SetJudgePerson(s)

EditImgCount == \E n \in MinImgCount..MaxImgCount : SetImgCount(n)

EditUploaded == \E i \in Slots, b \in BOOLEAN : SetUploaded(i, b)

EditType == \E i \in Slots, t \in Range(REQUIRED_IMAGE_TYPES) : SelectType(i, t)

EditJudge == \E i \in Slots, v \in Range(JUDGES) : SetJudge(i, v)

EditLearn == \E i \in Slots, v \in Range(LEARN_YN) : SetLearn(i, v)

EditNoReason == \E i \in Slots, r \in NoReasonInputs : SetNoReason(i, r)

EditReasonFree == \E i \in Slots, s \in FreeInputs : SetReasonFree(i, s)

EditOverall ==
  \/ \E v \in Range(JUDGES) : SetOverallJudge(v)
  \/ \E s \in ChoiceInputs : SetOverallChoices(s)
  \/ \E v \in Range(LEARN_YN) : SetOverallLearn(v)
  \/ \E r \in NoReasonInputs : SetOverallNoReason(r)
  \/ \E s \in FreeInputs : SetOverallFree(s)

PressSave == \E fail \in 0..MaxCalls : Save(fail)

\* a save in which no remote call raises
PressSaveOk == Save(0)

\* the session goes on while fewer than cap case ids were generated
Live(cap) == next_case_id <= cap

\* The whole console.
Next ==
  \/ Live(MaxDetailCases) /\ EditJudgePerson
  \/ Live(MaxDetailCases) /\ EditImgCount
  \/ Live(MaxDetailCases) /\ EditUploaded
  \/ Live(MaxDetailCases) /\ EditType
  \/ Live(MaxDetailCases) /\ EditJudge
  \/ Live(MaxDetailCases) /\ EditLearn
  \/ Live(MaxDetailCases) /\ EditNoReason
  \/ Live(MaxDetailCases) /\ EditReasonFree
  \/ Live(MaxDetailCases) /\ EditOverall
  \/ Live(MaxDetailCases) /\ PressSave
  \/ Live(MaxDetailCases) /\ NextItem

Spec == Init /\ [][Next]_vars

\* The submission: inspector, photo count and uploads are edited, the types
\* and judgments stay as first drawn, and any remote call may raise.
NextSave ==
  \/ Live(MaxCases) /\ EditJudgePerson
  \/ Live(MaxCases) /\ EditImgCount
  \/ Live(MaxCases) /\ EditUploaded
  \/ Live(MaxCases) /\ PressSave
  \/ Live(MaxCases) /\ NextItem

SpecSave == Init /\ [][NextSave]_vars

\* The type selection: the photo count, the types and the uploads are edited.
NextForm ==
  \/ EditImgCount
  \/ EditUploaded
  \/ EditType

SpecForm == Init /\ [][NextForm]_vars

\* The learn decisions: up to AggregateThreshold photos, their learn fields
\* and the aggregate's are edited and the form is saved.
NextLearn ==
  \/ Live(MaxDetailCases) /\ SetJudgePerson(<<" ", "a">>)
  \/ Live(MaxDetailCases) /\ \E n \in MinImgCount..AggregateThreshold : SetImgCount(n)
  \/ Live(MaxDetailCases) /\ EditUploaded
  \/ Live(MaxDetailCases) /\ EditLearn
  \/ Live(MaxDetailCases) /\ EditNoReason
  \/ Live(MaxDetailCases) /\ EditReasonFree
  \/ Live(MaxDetailCases) /\ \E v \in Range(LEARN_YN) : SetOverallLearn(v)
  \/ Live(MaxDetailCases) /\ \E r \in NoReasonInputs : SetOverallNoReason(r)
  \/ Live(MaxDetailCases) /\ \E s \in FreeInputs : SetOverallFree(s)
  \/ Live(MaxDetailCases) /\ PressSaveOk

SpecLearn == Init /\ [][NextLearn]_vars

\* The aggregate: up to AggregateThreshold photos and the aggregate's
\* rationale and learn fields are edited and the form is saved.
NextOverall ==
  \/ Live(MaxCases) /\ SetJudgePerson(<<" ", "a">>)
  \/ Live(MaxCases) /\ \E n \in MinImgCount..AggregateThreshold : SetImgCount(n)
  \/ Live(MaxCases) /\ EditUploaded
  \/ Live(MaxCases) /\ \E s \in ChoiceInputs : SetOverallChoices(s)
  \/ Live(MaxCases) /\ \E v \in Range(LEARN_YN) : SetOverallLearn(v)
  \/ Live(MaxCases) /\ \E r \in NoReasonInputs : SetOverallNoReason(r)
  \/ Live(MaxCases) /\ \E s \in FreeInputs : SetOverallFree(s)
  \/ Live(MaxCases) /\ PressSaveOk

SpecOverall == Init /\ [][NextOverall]_vars

\* ------------------------------------------------------------ properties
ws_cases == remote.ws_cases

ws_images == remote.ws_images

\* the Images rows of a case
ImagesOf(c) == {j \in DOMAIN ws_images : ws_images[j].case_id = c}

\* the case_id generated by the last run (line 422), if it generated one
ThisCase == next_case_id - 1

NameEmpty(w) == \A k \in DOMAIN w.judge_person : w.judge_person[k] = " "

MissingSlots(w) == {i \in 1..w.img_count : ~w.uploaded[i]}

Min(S) == CHOOSE x \in S : \A y \in S : x <= y

OpsAt(cs, op) == {k \in DOMAIN cs : cs[k].op = op}

\* C1: a press of the save button on a form that fails validation (inspector
\* name empty after trimming, or a slot without an uploaded image) issues no
\* remote call and leaves the worksheets, the folders and the files as they
\* were.
C1_NoRemoteCallOnInvalid ==
  [][ (run' = "save" /\ (NameEmpty(widgets') \/ MissingSlots(widgets') # {}))
        => (calls' = <<>> /\ remote' = remote) ]_vars

\* C1 case: a save stopped on a slot without image, after an earlier case
\* was committed; its rows are still the only ones
C1_Witness ==
  /\ run = "save"
  /\ ~NameEmpty(widgets)
  /\ MissingSlots(widgets) # {}
  /\ calls = <<>>
  /\ Len(ws_cases) = 1

\* C2: a Cases row of a case is appended only after one Images row per image
\* entry of that case (images_count rows carrying its case_id), and one
\* Cases row at most is appended per case_id: in every state of the logs a
\* Cases row has all its Images rows.
C2_ImageRowsBeforeCaseRow ==
  /\ \A k \in DOMAIN ws_cases :
       Cardinality(ImagesOf(ws_cases[k].case_id)) = ws_cases[k].images_count
  /\ \A k, l \in DOMAIN ws_cases :
       ws_cases[k].case_id = ws_cases[l].case_id => k = l
  /\ \A k \in OpsAt(calls, "append_cases") :
       /\ {calls[j].idx : j \in {a \in OpsAt(calls, "append_images") : a < k}}
            = 1..widgets.img_count
       /\ Cardinality({a \in OpsAt(calls, "append_images") : a < k})
            = widgets.img_count
       /\ OpsAt(calls, "append_cases") = {k}

\* C2 case: two committed cases, the later one with three photos
C2_Witness ==
  /\ Len(ws_cases) = 2
  /\ ws_cases[2].images_count = 3
  /\ Cardinality(ImagesOf(ws_cases[2].case_id)) = 3
  /\ run = "save"

\* the entries persisted on submit (the rows copy p["image_type"])
EntryTypes == [i \in 1..widgets.img_count |-> images_payload(widgets)[i].image_type]

\* C3: after any sequence of edits of the photo count and of the types, the
\* image entries number 1 to 4 and their types are pairwise distinct types
\* of the required list.
C3_CountAndDistinctTypes ==
  /\ Len(EntryTypes) \in 1..4
  /\ \A i, j \in DOMAIN EntryTypes : EntryTypes[i] = EntryTypes[j] => i = j
  /\ \A i \in DOMAIN EntryTypes : EntryTypes[i] \in Range(REQUIRED_IMAGE_TYPES)

\* C3 case: four entries, the second one re-selected
C3_Witness ==
  /\ widgets.img_count = 4
  /\ EntryTypes[2] = "LOGO"
  /\ EntryTypes[4] = "IDEAL"

\* the types selected in the slots before slot i
Before(i) == [k \in 1..(i - 1) |-> widgets.image_type[k]]

\* C4: IDEAL and YKK are never both among a case's entries; once one of the
\* two is selected in a slot, the options of every later slot leave out the
\* other, and for 1 to 4 photos the exclusion never empties the options, so
\* that the fallback to "all types minus chosen" never re-admits it.
C4_IdealYkkExclusive ==
  /\ ~({"IDEAL", "YKK"} \subseteq Range(EntryTypes))
  /\ \A i \in 1..MaxImgCount :
       i <= widgets.img_count + 1 =>
         /\ ("YKK" \in Range(Before(i)) => "IDEAL" \notin Range(available(Before(i))))
         /\ ("IDEAL" \in Range(Before(i)) => "YKK" \notin Range(available(Before(i))))
         /\ \E t \in Range(available(Before(i))) :
              ~({"IDEAL", "YKK"} \subseteq (Range(Before(i)) \cup {t}))

\* C4 case: YKK selected in the third of four slots, the last slot left with
\* a single option
C4_Witness ==
  /\ widgets.img_count = 4
  /\ EntryTypes[3] = "YKK"
  /\ Len(available(Before(4))) = 1

\* C5: a Cases row of a case with fewer images than the aggregate threshold
\* has empty strings in the five overall_* columns.
C5_NoAggregateBelowThreshold ==
  \A k \in DOMAIN ws_cases :
    ws_cases[k].images_count < AggregateThreshold =>
      /\ ws_cases[k].overall_judge = ""
      /\ ws_cases[k].overall_reason_choices = ""
      /\ ws_cases[k].overall_reason_free = ""
      /\ ws_cases[k].overall_learn_yn = ""
      /\ ws_cases[k].overall_learn_no_reason = ""

\* C5 case: a case saved with an aggregate (learn No, rationale filled), then
\* the count lowered to one photo and a second case saved
C5_Witness ==
  /\ Len(ws_cases) = 2
  /\ ws_cases[1].images_count = 2
  /\ ws_cases[1].overall_learn_yn = "No"
  /\ ws_cases[1].overall_reason_free # ""
  /\ ws_cases[1].overall_reason_choices # ""
  /\ ws_cases[2].images_count = 1
  /\ ws_cases[2].overall_judge = ""

\* the learn fields the claim C6 asks of an entry or of the aggregate
LearnComplete(yn, reason, free) ==
  /\ yn \in Range(LEARN_YN)
  /\ yn = "No" => /\ reason # ""
                  /\ (reason = OTHER_REASON => free # "")

\* validate(case) = Ok as C6 states it
C6_Ok(w) ==
  /\ ~NameEmpty(w)
  /\ \A i \in 1..w.img_count :
       /\ w.uploaded[i]
       /\ w.judge[i] \in Range(JUDGES)
       /\ LearnComplete(w.learn_yn[i], w.no_reason[i], w.reason_free[i])
  /\ w.img_count >= AggregateThreshold =>
       /\ w.overall_judge \in Range(JUDGES)
       /\ LearnComplete(w.overall_learn_yn, w.overall_no_reason, w.overall_reason_free)

\* C6: a press of save passes validation if and only if the inspector name
\* is non-empty after trimming, every entry has an image, a judgment and a
\* learn decision, and every learn decision No (entries and aggregate) has a
\* reason which, if it is the Other reason, comes with free text.
C6_ValidateIff ==
  run = "save" => ((errors = <<>>) <=> C6_Ok(widgets))

\* C7: a Cases row committed for an aggregate with learn No and the Other
\* reason holds, in overall_learn_no_reason, the Other reason concatenated
\* with the aggregate's free text, as learn_no_reason of an image does.
C7_OverallOtherConcatenated ==
  ( /\ run = "save"
    /\ errors = <<>>
    /\ raised = 0
    /\ widgets.img_count >= AggregateThreshold
    /\ widgets.overall_learn_yn = "No"
    /\ widgets.overall_no_reason = OTHER_REASON )
  => ws_cases[Len(ws_cases)].overall_learn_no_reason =
       OTHER_REASON \o SEP \o
         (IF widgets.overall_reason_free = "" THEN PLACEHOLDER
          ELSE widgets.overall_reason_free)

\* the violations of all the checks of lines 405-413, in check order
AllViolations(w) ==
  (IF NameEmpty(w) THEN << [field |-> "judge_person", idx |-> 0] >> ELSE <<>>)
    \o (IF MissingSlots(w) # {}
        THEN << [field |-> "uploaded", idx |-> Min(MissingSlots(w))] >>
        ELSE <<>>)

\* C8 as stated: a press of save reports one violation per failed check, in
\* check order, also when several checks fail.
C8_ReportsAllViolations ==
  run = "save" => errors = AllViolations(widgets)

\* C8 amended: a press of save reports the first failed check only: the
\* inspector-name error if the name is empty after trimming, else the error
\* of the lowest slot without image, else nothing.
C8_ReportsFirstViolationOnly ==
  run = "save" =>
    errors = IF AllViolations(widgets) = <<>> THEN <<>>
             ELSE << AllViolations(widgets)[1] >>

\* C8 case: the name empty and a slot without image, one message shown
C8_Witness ==
  /\ run = "save"
  /\ NameEmpty(widgets)
  /\ MissingSlots(widgets) # {}
  /\ Len(errors) = 1

\* C9 as stated: every upload of the case is issued before the first append
\* to the Images log, and when an upload raises no row of this case is in
\* either log.
C9_UploadsThenAppends ==
  /\ \A a \in OpsAt(calls, "upload"), b \in OpsAt(calls, "append_images") : a < b
  /\ (raised # 0 /\ calls[raised].op = "upload") =>
       (ImagesOf(ThisCase) = {} /\ \A k \in DOMAIN ws_cases : ws_cases[k].case_id # ThisCase)

\* C9 amended: the calls of a submission are issued one after the other in
\* the order client setup, worksheets, folder, then per image in list order
\* its upload followed at once by the append of its Images row, then the
\* Cases row; when the upload of image k raises, the Images log holds the
\* rows of the images before k of this case and the Cases log none.
C9_UploadAppendInterleaved ==
  /\ Len(calls) <= 2 * widgets.img_count + 4
  /\ \A k \in DOMAIN calls :
       calls[k] =
         IF k = 1 THEN call("get_clients", 0)
         ELSE IF k = 2 THEN call("open_worksheets", 0)
         ELSE IF k = 3 THEN call("ensure_folder", 0)
         ELSE IF k = 2 * widgets.img_count + 4 THEN call("append_cases", 0)
         ELSE IF k % 2 = 0 THEN call("upload", (k - 2) \div 2)
         ELSE call("append_images", (k - 3) \div 2)
  /\ (raised # 0 /\ calls[raised].op = "upload") =>
       /\ Cardinality(ImagesOf(ThisCase)) = calls[raised].idx - 1
       /\ \A k \in DOMAIN ws_cases : ws_cases[k].case_id # ThisCase

\* C9 case: the upload of the second image raises, the row of the first is
\* in the Images log
C9_Witness ==
  /\ raised # 0
  /\ calls[raised] = call("upload", 2)
  /\ Cardinality(ImagesOf(ThisCase)) = 1

\* C10: when the upload of image k raises, the run ends there: no call is
\* issued after it and no upload twice, the Cases log and the saved flag,
\* last_case_id and the banner stay as they were, and the files uploaded
\* for the images before k stay in the case folder.
C10_UploadFailureEndsAttempt ==
  [][ (run' = "save" /\ raised' # 0 /\ calls'[raised'].op = "upload") =>
        LET k == calls'[raised'].idx
            m == Len(remote.files)
        IN  /\ Len(calls') = raised'
            /\ {calls'[a].idx : a \in OpsAt(calls', "upload")} = 1..k
            /\ Cardinality(OpsAt(calls', "upload")) = k
            /\ remote'.ws_cases = remote.ws_cases
            /\ UNCHANGED <<saved, last_case_id, show_saved_banner>>
            /\ Len(remote'.files) = m + k - 1
            /\ SubSeq(remote'.files, 1, m) = remote.files
            /\ \A i \in 1..(k - 1) :
                 remote'.files[m + i] = [ parent     |-> next_case_id,
                                          image_type |-> widgets.image_type[i] ]
    ]_vars

\* C10 case: the third upload raises after an earlier case was committed;
\* two files of this case are in its folder and the banner still names the
\* earlier case
C10_Witness ==
  /\ run = "save"
  /\ raised # 0
  /\ calls[raised] = call("upload", 3)
  /\ Cardinality({f \in DOMAIN remote.files : remote.files[f].parent = ThisCase}) = 2
  /\ saved
  /\ last_case_id = ThisCase - 1

====
